---- MODULE Spec2Model ----
(***************************************************************************)
(* The Blog page (src/src/pages/Blog.tsx) and the CreatePost page          *)
(* (src/unnamed/part_000) of blogpress as one state machine.               *)
(*                                                                         *)
(* A behaviour follows one page instance from its first render: `page`     *)
(* says which of the two components was mounted.  React state cells are    *)
(* the variables; every handler, effect and async continuation is one      *)
(* action (JavaScript runs each of them to completion).                    *)
(*                                                                         *)
(* Strings on which the code computes (toLowerCase, trim, includes) are    *)
(* sequences of one-character strings.  A nullable value is None (<<>>)    *)
(* or Some(v) (<<v>>).                                                     *)
(***************************************************************************)
EXTENDS Integers, Sequences, FiniteSets, TLC

VARIABLES
    page,           \* which page component this behaviour follows
    location,       \* the router's current path
    effects,        \* user-visible side effects in order: toasts and navigations
    consoleErrors,  \* number of console.error calls (not user-visible)
    \* ---- Blog.tsx state (lines 32-38) ----
    posts, filteredPosts, loading, searchQuery, selectedTags, allTags, selectedPost,
    fetchPc,        \* position of the async fetchPosts
    postsData,      \* fetchPosts' local: the rows the first query returned
    fetchInFlight,  \* remote queries of the Blog page awaiting a response
    filterPending,  \* the [posts, searchQuery, selectedTags] effect is scheduled
    \* ---- CreatePost state (part_000 lines 18-25) ----
    form,           \* title, content, excerpt, featuredImage, published, tags
    cpLoading,      \* CreatePost's `loading`
    user,           \* useAuth().user
    pendingInserts, \* insert requests awaiting a response, with the closure each captured
    submits         \* number of submit events handled

blogVars == <<posts, filteredPosts, loading, searchQuery, selectedTags, allTags,
              selectedPost, fetchPc, postsData, fetchInFlight, filterPending>>
createVars == <<form, cpLoading, user, pendingInserts, submits>>
vars == <<page, location, effects, consoleErrors, blogVars, createVars>>

----------------------------------------------------------------------------
(* Bounds *)
MaxPosts == 2       \* rows the posts query returns
MaxSelected == 2    \* length of selectedTags
MaxSubmits == 2     \* submit events per behaviour
MaxQueryLen == 2    \* characters typed into the search box

----------------------------------------------------------------------------
(* Nullable values *)
None == <<>>
Some(v) == <<v>>
Val(o) == o[1]

(* Strings as character sequences *)
Space == " "

LowerChar(c) == CASE c = "A" -> "a"
                  [] c = "B" -> "b"
                  [] OTHER -> c

toLowerCase(s) == [i \in 1..Len(s) |-> LowerChar(s[i])]

trim(s) ==
    LET keep == {i \in 1..Len(s) : s[i] # Space}
        lo == CHOOSE i \in keep : \A j \in keep : i <= j
        hi == CHOOSE i \in keep : \A j \in keep : i >= j
    IN IF keep = {} THEN <<>> ELSE SubSeq(s, lo, hi)

\* String.prototype.includes
includes(s, q) ==
    \E i \in 0..(Len(s) - Len(q)) : SubSeq(s, i + 1, i + Len(q)) = q

\* Array.prototype.includes
arrayIncludes(arr, x) == \E i \in 1..Len(arr) : arr[i] = x

----------------------------------------------------------------------------
(* The remote data the Blog page can receive *)

Tag1 == <<"a">>
Tag2 == <<"b">>

Row(t, c, e, g) ==
    [title |-> t, content |-> c, excerpt |-> e, tags |-> g, author_id |-> "u1"]

\* Rows of blog_posts (BlogPost, lines 17-29, without the fields no handler reads)
RowPool ==
    { Row(<<"A", "b">>, <<"b">>, None, None),
      Row(<<"b">>, <<"a", " ", "b">>, None, Some(<<>>)),
      Row(<<"b">>, <<"b">>, Some(<<"A">>), Some(<<Tag2>>)),
      Row(<<"b">>, <<"b">>, Some(<<>>), Some(<<Tag1>>)),
      Row(<<"b">>, <<"b">>, None, Some(<<Tag1, Tag2>>)),
      Row(<<"b">>, <<"b">>, None, Some(<<Tag2>>)) }

\* What the posts query can return: up to MaxPosts rows, each with its own id
RowLists ==
    UNION { { [i \in 1..n |-> [id |-> i] @@ f[i]] : f \in [1..n -> RowPool] }
            : n \in 0..MaxPosts }

\* What the profiles query can return for the authors asked for
ProfileLists ==
    { <<>>,
      <<[user_id |-> "u1", display_name |-> None]>>,
      <<[user_id |-> "u1", display_name |-> Some("Ann")]>> }

\* What the user can type into the search box
QueryChars == {"a", "A", " "}
Queries == UNION { [1..n -> QueryChars] : n \in 0..MaxQueryLen }

----------------------------------------------------------------------------
(* Blog.tsx: pure parts *)

\* lines 69-74: the client-side join
displayName(profilesData, author) ==
    IF \E i \in 1..Len(profilesData) : profilesData[i].user_id = author
    THEN LET k == CHOOSE i \in 1..Len(profilesData) :
                    /\ profilesData[i].user_id = author
                    /\ \A j \in 1..(i - 1) : profilesData[j].user_id # author
         IN profilesData[k].display_name
    ELSE None

postsWithProfiles(rows, profilesData) ==
    [i \in 1..Len(rows) |->
        rows[i] @@ [profiles |->
                      [display_name |-> displayName(profilesData, rows[i].author_id)]]]

\* lines 79-85: the tags of all rows, each once, in order of first appearance
RECURSIVE addAll(_, _)
addAll(acc, ts) ==
    IF ts = <<>> THEN acc
    ELSE addAll(IF arrayIncludes(acc, Head(ts)) THEN acc ELSE Append(acc, Head(ts)),
                Tail(ts))

RECURSIVE uniqueTags(_, _)
uniqueTags(acc, rows) ==
    IF rows = <<>> THEN acc
    ELSE uniqueTags(IF Head(rows).tags # None
                       THEN addAll(acc, Val(Head(rows).tags))
                       ELSE acc,
                    Tail(rows))

\* lines 99-104: the predicate of the search filter
textMatch(post, query) ==
    \/ includes(toLowerCase(post.title), query)
    \/ includes(toLowerCase(post.content), query)
    \/ (post.excerpt # None /\ includes(toLowerCase(Val(post.excerpt)), query))
    \/ (post.tags # None /\
        \E i \in 1..Len(Val(post.tags)) :
            includes(toLowerCase(Val(post.tags)[i]), query))

\* tagMatch with `some` in place of line 110's `every`
tagMatchAny(post, selected) ==
    /\ post.tags # None
    /\ \E i \in 1..Len(selected) : arrayIncludes(Val(post.tags), selected[i])

\* lines 109-111: the predicate of the tag filter
tagMatch(post, selected) ==
    /\ post.tags # None
    /\ \A i \in 1..Len(selected) : arrayIncludes(Val(post.tags), selected[i])

\* line 97: the search filter runs only for a query that is not all whitespace
searchActive(q) == trim(q) # <<>>

\* searchNeedle without line 98's toLowerCase
searchNeedleRaw(q) == q

\* line 98: the query the search filter matches with
searchNeedle(q) == toLowerCase(q)

\* lines 93-115: the value filterPosts passes to setFilteredPosts
filterPosts(ps, q, selected) ==
    LET bySearch == IF searchActive(q)
                    THEN SelectSeq(ps, LAMBDA post : textMatch(post, searchNeedle(q)))
                    ELSE ps
    IN IF Len(selected) > 0
       THEN SelectSeq(bySearch, LAMBDA post : tagMatch(post, selected))
       ELSE bySearch

\* line 118 / line 330: the array a tag selection stores
withTag(selected, tag) == Append(selected, tag)

\* line 122
withoutTag(selected, tag) == SelectSeq(selected, LAMBDA t : t # tag)

----------------------------------------------------------------------------
(* Blog.tsx: actions *)

\* lines 129-138, 140: the list view with its search box and tag filter is
\* rendered only when not loading and no post is open; React has run the
\* effects of a render before the next event is handled.
ListShown ==
    /\ page = "Blog"
    /\ fetchPc # "init"
    /\ ~loading
    /\ selectedPost = None
    /\ ~filterPending

\* lines 40-46: the effects of the first render, in order: fetchPosts runs to
\* its first await, then filterPosts
Mount ==
    /\ page = "Blog"
    /\ fetchPc = "init"
    /\ fetchPc' = "postsQuery"
    /\ fetchInFlight' = fetchInFlight + 1
    /\ filteredPosts' = filterPosts(posts, searchQuery, selectedTags)
    /\ filterPending' = FALSE
    /\ UNCHANGED <<page, location, effects, consoleErrors, posts, loading,
                   searchQuery, selectedTags, allTags, selectedPost, postsData,
                   createVars>>

\* lines 86-90: catch and finally of fetchPosts
fetchFailed ==
    /\ consoleErrors' = consoleErrors + 1
    /\ loading' = FALSE
    /\ fetchPc' = "failed"
    /\ fetchInFlight' = fetchInFlight - 1
    /\ UNCHANGED <<page, location, effects, posts, filteredPosts, searchQuery,
                   selectedTags, allTags, selectedPost, postsData, filterPending,
                   createVars>>

\* lines 51-64: the posts query answers with rows; the profiles query is sent
PostsQueryOk(rows) ==
    /\ fetchPc = "postsQuery"
    /\ postsData' = rows
    /\ fetchPc' = "profilesQuery"
    /\ UNCHANGED <<page, location, effects, consoleErrors, posts, filteredPosts,
                   loading, searchQuery, selectedTags, allTags, selectedPost,
                   fetchInFlight, filterPending, createVars>>

\* line 57
PostsQueryError ==
    /\ fetchPc = "postsQuery"
    /\ fetchFailed

\* ProfilesQueryOk that also shows the fetched rows at once, before the join
ProfilesQueryOkShowsRows(profilesData) ==
    /\ fetchPc = "profilesQuery"
    /\ posts' = postsWithProfiles(postsData, profilesData)
    /\ filteredPosts' = postsData
    /\ allTags' = uniqueTags(<<>>, postsData)
    /\ loading' = FALSE
    /\ fetchPc' = "done"
    /\ fetchInFlight' = fetchInFlight - 1
    /\ filterPending' = TRUE
    /\ UNCHANGED <<page, location, effects, consoleErrors,
                   searchQuery, selectedTags, selectedPost, postsData, createVars>>

\* lines 66-90: the profiles query answers; join, setPosts, setAllTags, setLoading
ProfilesQueryOk(profilesData) ==
    /\ fetchPc = "profilesQuery"
    /\ posts' = postsWithProfiles(postsData, profilesData)
    /\ allTags' = uniqueTags(<<>>, postsData)
    /\ loading' = FALSE
    /\ fetchPc' = "done"
    /\ fetchInFlight' = fetchInFlight - 1
    /\ filterPending' = TRUE
    /\ UNCHANGED <<page, location, effects, consoleErrors, filteredPosts,
                   searchQuery, selectedTags, selectedPost, postsData, createVars>>

\* line 66
ProfilesQueryError ==
    /\ fetchPc = "profilesQuery"
    /\ fetchFailed

\* lines 44-46: the effect re-runs filterPosts after a render that changed a dependency
FilterEffect ==
    /\ page = "Blog"
    /\ fetchPc # "init"
    /\ filterPending
    /\ filteredPosts' = filterPosts(posts, searchQuery, selectedTags)
    /\ filterPending' = FALSE
    /\ UNCHANGED <<page, location, effects, consoleErrors, posts, loading,
                   searchQuery, selectedTags, allTags, selectedPost, fetchPc,
                   postsData, fetchInFlight, createVars>>

\* line 238: onChange of the search box
SetSearchQuery(q) ==
    /\ ListShown
    /\ q # searchQuery
    /\ searchQuery' = q
    /\ filterPending' = TRUE
    /\ UNCHANGED <<page, location, effects, consoleErrors, posts, filteredPosts,
                   loading, selectedTags, allTags, selectedPost, fetchPc, postsData,
                   fetchInFlight, createVars>>

\* handleTagSelect under an effect whose dependency list (line 46) lacks selectedTags
handleTagSelectNoEffect(tag) ==
    /\ ListShown
    /\ arrayIncludes(allTags, tag)
    /\ Len(selectedTags) < MaxSelected
    /\ selectedTags' = withTag(selectedTags, tag)
    /\ UNCHANGED <<page, location, effects, consoleErrors, posts, filteredPosts,
                   loading, searchQuery, allTags, selectedPost, fetchPc, postsData,
                   fetchInFlight, filterPending, createVars>>

\* lines 117-119, called by TagFilter with one of availableTags (line 245)
handleTagSelect(tag) ==
    /\ ListShown
    /\ arrayIncludes(allTags, tag)
    /\ Len(selectedTags) < MaxSelected
    /\ selectedTags' = withTag(selectedTags, tag)
    /\ filterPending' = TRUE
    /\ UNCHANGED <<page, location, effects, consoleErrors, posts, filteredPosts,
                   loading, searchQuery, allTags, selectedPost, fetchPc, postsData,
                   fetchInFlight, createVars>>

\* lines 121-123, called by TagFilter with one of selectedTags (line 246)
handleTagRemove(tag) ==
    /\ ListShown
    /\ arrayIncludes(selectedTags, tag)
    /\ selectedTags' = withoutTag(selectedTags, tag)
    /\ filterPending' = TRUE
    /\ UNCHANGED <<page, location, effects, consoleErrors, posts, filteredPosts,
                   loading, searchQuery, allTags, selectedPost, fetchPc, postsData,
                   fetchInFlight, createVars>>

\* lines 125-127
handleClearAllTags ==
    /\ ListShown
    /\ selectedTags' = <<>>
    /\ filterPending' = TRUE
    /\ UNCHANGED <<page, location, effects, consoleErrors, posts, filteredPosts,
                   loading, searchQuery, allTags, selectedPost, fetchPc, postsData,
                   fetchInFlight, createVars>>

\* lines 262-278: the 'Clear Filters' button of the empty result
ClearFilters ==
    /\ ListShown
    /\ Len(posts) # 0
    /\ Len(filteredPosts) = 0
    /\ searchQuery' = <<>>
    /\ selectedTags' = <<>>
    /\ filterPending' = TRUE
    /\ UNCHANGED <<page, location, effects, consoleErrors, posts, filteredPosts,
                   loading, allTags, selectedPost, fetchPc, postsData,
                   fetchInFlight, createVars>>

\* lines 321-335: a click on one of the first five tag badges of a listed post
BadgeClick(i, k) ==
    /\ ListShown
    /\ Len(posts) # 0
    /\ i \in 1..Len(filteredPosts)
    /\ filteredPosts[i].tags # None
    /\ k \in 1..Len(Val(filteredPosts[i].tags))
    /\ k <= 5
    /\ LET tag == Val(filteredPosts[i].tags)[k]
       IN IF ~arrayIncludes(selectedTags, tag)
          THEN /\ Len(selectedTags) < MaxSelected
               /\ selectedTags' = withTag(selectedTags, tag)
               /\ filterPending' = TRUE
          ELSE UNCHANGED <<selectedTags, filterPending>>
    /\ UNCHANGED <<page, location, effects, consoleErrors, posts, filteredPosts,
                   loading, searchQuery, allTags, selectedPost, fetchPc, postsData,
                   fetchInFlight, createVars>>

\* lines 292, 299, 359: open a listed post
SelectPost(i) ==
    /\ ListShown
    /\ Len(posts) # 0
    /\ i \in 1..Len(filteredPosts)
    /\ selectedPost' = Some(filteredPosts[i])
    /\ UNCHANGED <<page, location, effects, consoleErrors, posts, filteredPosts,
                   loading, searchQuery, selectedTags, allTags, fetchPc, postsData,
                   fetchInFlight, filterPending, createVars>>

\* line 145: '<- Back to Blog'
BackToBlog ==
    /\ page = "Blog"
    /\ ~loading
    /\ selectedPost # None
    /\ selectedPost' = None
    /\ UNCHANGED <<page, location, effects, consoleErrors, posts, filteredPosts,
                   loading, searchQuery, selectedTags, allTags, fetchPc, postsData,
                   fetchInFlight, filterPending, createVars>>

BlogNext ==
    \/ Mount
    \/ \E rows \in RowLists : PostsQueryOk(rows)
    \/ PostsQueryError
    \/ \E profilesData \in ProfileLists : ProfilesQueryOk(profilesData)
    \/ ProfilesQueryError
    \/ FilterEffect
    \/ \E q \in Queries : SetSearchQuery(q)
    \/ \E tag \in {Tag1, Tag2} : handleTagSelect(tag)
    \/ \E tag \in {Tag1, Tag2} : handleTagRemove(tag)
    \/ handleClearAllTags
    \/ ClearFilters
    \/ \E i \in 1..MaxPosts, k \in 1..2 : BadgeClick(i, k)
    \/ \E i \in 1..MaxPosts : SelectPost(i)
    \/ BackToBlog

----------------------------------------------------------------------------
(* CreatePost (src/unnamed/part_000) *)

\* What the form's inputs can hold
Titles == {"", "T"}
Contents == {"", "C"}
Excerpts == {"", "E"}
Images == {"", "U"}
TagInputs == {<<>>, <<"go">>}

\* What a failed insert can report
ErrorMessages == {"permission denied", "Failed to fetch"}

Users == {None, Some([id |-> "u1"])}

Toast(t, d, v) == [kind |-> "toast", title |-> t, description |-> d, variant |-> v]
Navigate(to) == [kind |-> "navigate", title |-> to, description |-> "", variant |-> ""]

\* lines 31-35
AuthToast ==
    Toast("Authentication required", "Please log in to create a post.", "destructive")

\* lines 57-60, with the `published` of the render that submitted
SuccessToast(pub) ==
    Toast("Post created successfully",
          IF pub THEN "Your post is now live!" ELSE "Your draft has been saved.",
          "default")

\* lines 64-68
ErrorToast(message) == Toast("Error creating post", message, "destructive")

\* lines 43-51: the row handleSubmit inserts
insertRow(f, u) ==
    [title |-> f.title,
     content |-> f.content,
     excerpt |-> IF f.excerpt # "" THEN Some(f.excerpt) ELSE None,
     featured_image_url |-> IF f.featuredImage # "" THEN Some(f.featuredImage) ELSE None,
     published |-> f.published,
     tags |-> IF Len(f.tags) > 0 THEN Some(f.tags) ELSE None,
     author_id |-> Val(u).id]

\* The form of CreatePost is rendered while the router is on its route
FormShown == page = "CreatePost" /\ location = "/create"

\* a submit button that is never disabled
submitNeverDisabled == FALSE

\* line 163: the submit button is disabled while loading
submitDisabled == cpLoading

\* line 30
noUser == user = None

\* rejectSubmit with setLoading(true) moved above the check of line 30
rejectSubmitLoading ==
    /\ cpLoading' = TRUE
    /\ effects' = Append(effects, AuthToast)
    /\ UNCHANGED pendingInserts

\* lines 30-37: no user: toast and return
rejectSubmit ==
    /\ effects' = Append(effects, AuthToast)
    /\ UNCHANGED <<cpLoading, pendingInserts>>

\* lines 28-39: a submit event; title is a required input (line 109)
handleSubmit ==
    /\ FormShown
    /\ ~submitDisabled
    /\ form.title # ""
    /\ submits < MaxSubmits
    /\ submits' = submits + 1
    /\ IF noUser
       THEN rejectSubmit
       ELSE /\ cpLoading' = TRUE
            /\ pendingInserts' =
                 Append(pendingInserts,
                        [row |-> insertRow(form, user), published |-> form.published])
            /\ UNCHANGED effects
    /\ UNCHANGED <<page, location, consoleErrors, blogVars, form, user>>

dropAt(seq, i) == SubSeq(seq, 1, i - 1) \o SubSeq(seq, i + 1, Len(seq))

\* lines 57-62: what the continuation does when the insert succeeded
onInsertOk(req) == <<SuccessToast(req.published), Navigate("/dashboard")>>

\* onInsertError with the navigation of line 62 moved into `finally`
onInsertErrorNavigates(message) == <<ErrorToast(message), Navigate("/dashboard")>>

\* lines 63-68: what the continuation does when the insert failed
onInsertError(message) == <<ErrorToast(message)>>

\* lines 55-71: the insert answers without error
InsertOk(i) ==
    /\ page = "CreatePost"
    /\ i \in 1..Len(pendingInserts)
    /\ effects' = effects \o onInsertOk(pendingInserts[i])
    /\ location' = "/dashboard"
    /\ cpLoading' = FALSE
    /\ pendingInserts' = dropAt(pendingInserts, i)
    /\ UNCHANGED <<page, consoleErrors, blogVars, form, user, submits>>

\* lines 55, 63-71: the insert answers with an error, or the request rejects
InsertError(i, message) ==
    /\ page = "CreatePost"
    /\ i \in 1..Len(pendingInserts)
    /\ effects' = effects \o onInsertError(message)
    /\ cpLoading' = FALSE
    /\ pendingInserts' = dropAt(pendingInserts, i)
    /\ UNCHANGED <<page, location, consoleErrors, blogVars, form, user, submits>>

\* lines 108, 146, 119, 137, 155, 128: the inputs' setters
SetField(name, value) ==
    /\ FormShown
    /\ form[name] # value
    /\ form' = [form EXCEPT ![name] = value]
    /\ UNCHANGED <<page, location, effects, consoleErrors, blogVars, cpLoading,
                   user, pendingInserts, submits>>

SetTitle == \E v \in Titles : SetField("title", v)
SetContent == \E v \in Contents : SetField("content", v)
SetExcerpt == \E v \in Excerpts : SetField("excerpt", v)
SetFeaturedImage == \E v \in Images : SetField("featuredImage", v)
SetPublished == \E v \in BOOLEAN : SetField("published", v)
SetTags == \E v \in TagInputs : SetField("tags", v)

\* lines 79, 85, 170: 'Back to Dashboard', 'View Blog', 'Cancel'
Leave(to) ==
    /\ FormShown
    /\ effects' = Append(effects, Navigate(to))
    /\ location' = to
    /\ UNCHANGED <<page, consoleErrors, blogVars, createVars>>

CreateNext ==
    \/ handleSubmit
    \/ \E i \in 1..MaxSubmits : InsertOk(i)
    \/ \E i \in 1..MaxSubmits, message \in ErrorMessages : InsertError(i, message)
    \/ SetTitle
    \/ SetContent
    \/ SetExcerpt
    \/ SetFeaturedImage
    \/ SetPublished
    \/ SetTags
    \/ \E to \in {"/dashboard", "/blog"} : Leave(to)

----------------------------------------------------------------------------
(* The whole machine *)

Init ==
    /\ page \in {"Blog", "CreatePost"}
    /\ location = IF page = "Blog" THEN "/blog" ELSE "/create"
    /\ effects = <<>>
    /\ consoleErrors = 0
    \* Blog.tsx lines 32-38
    /\ posts = <<>>
    /\ filteredPosts = <<>>
    /\ loading = TRUE
    /\ searchQuery = <<>>
    /\ selectedTags = <<>>
    /\ allTags = <<>>
    /\ selectedPost = None
    /\ fetchPc = "init"
    /\ postsData = <<>>
    /\ fetchInFlight = 0
    /\ filterPending = TRUE
    \* part_000 lines 18-25
    /\ form = [title |-> "", content |-> "", excerpt |-> "", featuredImage |-> "",
               published |-> FALSE, tags |-> <<>>]
    /\ cpLoading = FALSE
    /\ user \in IF page = "CreatePost" THEN Users ELSE {None}
    /\ pendingInserts = <<>>
    /\ submits = 0

Next == BlogNext \/ CreateNext

Spec == Init /\ [][Next]_vars

\* Blog.tsx lines 32-38: a behaviour of the Blog page
BlogInit == Init /\ page = "Blog"

\* lines 40-46: the Blog page, where React runs the effects of every committed render
FairSpec == BlogInit /\ [][BlogNext]_vars /\ WF_vars(Mount) /\ WF_vars(FilterEffect)

----------------------------------------------------------------------------
(* Properties *)

\* filterPosts has run on the current posts, searchQuery and selectedTags
FilterSettled == page = "Blog" /\ fetchPc # "init" /\ ~filterPending

isElement(seq, x) == \E i \in 1..Len(seq) : seq[i] = x

\* The query of the filter criteria as the specification defines it:
\* case-insensitive and trimmed
criteriaQuery(q) == toLowerCase(trim(q))

\* The text match of the specification: the query is empty, or it is a
\* substring of the lower-cased title, excerpt, content or some tag
specTextMatch(post, q) ==
    \/ criteriaQuery(q) = <<>>
    \/ includes(toLowerCase(post.title), criteriaQuery(q))
    \/ (post.excerpt # None /\ includes(toLowerCase(Val(post.excerpt)), criteriaQuery(q)))
    \/ includes(toLowerCase(post.content), criteriaQuery(q))
    \/ (post.tags # None /\
        \E k \in 1..Len(Val(post.tags)) :
            includes(toLowerCase(Val(post.tags)[k]), criteriaQuery(q)))

\* The tag match of the specification: nothing is selected, or every selected
\* tag is among the post's tags
specTagMatch(post, selected) ==
    \/ selected = <<>>
    \/ \A k \in 1..Len(selected) :
          post.tags # None /\ isElement(Val(post.tags), selected[k])

\* C1: once filterPosts has run, filteredPosts is exactly the subsequence of
\* posts, in their order, of the posts that satisfy both the text match and
\* the tag match of the filter criteria.
C1_FilterContract ==
    FilterSettled =>
        filteredPosts =
            SelectSeq(posts, LAMBDA post : /\ specTextMatch(post, searchQuery)
                                           /\ specTagMatch(post, selectedTags))

\* C2: in every state every element of filteredPosts is an element of posts,
\* and a run of filterPosts leaves posts as it was.
C2_VisibleSubsetOfFetched ==
    /\ [](\A i \in 1..Len(filteredPosts) : isElement(posts, filteredPosts[i]))
    /\ [][(filterPending /\ ~filterPending') => posts' = posts]_vars

C2_Witness ==
    /\ FilterSettled
    /\ Len(filteredPosts) = 1
    /\ Len(posts) = 2
    /\ searchQuery # <<>>
    /\ selectedTags # <<>>

\* C3 as stated: once filterPosts has run, every post whose title has the
\* query as a substring is in filteredPosts, whatever its other fields are.
C3_TitleMatchShown ==
    FilterSettled =>
        \A i \in 1..Len(posts) :
            includes(posts[i].title, searchQuery) => isElement(filteredPosts, posts[i])

\* C3 amended: once filterPosts has run, every post whose title has the query
\* as a substring and that carries every selected tag is in filteredPosts,
\* whatever its excerpt and content are.
C3_TitleMatchShownIfTagged ==
    FilterSettled =>
        \A i \in 1..Len(posts) :
            (includes(posts[i].title, searchQuery) /\ specTagMatch(posts[i], selectedTags))
                => isElement(filteredPosts, posts[i])

C3_Witness ==
    /\ FilterSettled
    /\ searchQuery = <<"A">>
    /\ selectedTags = <<>>
    /\ Len(posts) = 2
    /\ Len(filteredPosts) = 1
    /\ filteredPosts[1].title = <<"A", "b">>
    /\ filteredPosts[1].excerpt = None
    /\ filteredPosts[1].tags = None

\* C4: once filterPosts has run with a non-empty selection, every post of
\* filteredPosts carries every selected tag: no post with null tags, and no
\* post that lacks a selected tag, is listed, whatever the query is.
C4_TagSelectionIsAnd ==
    (FilterSettled /\ Len(selectedTags) > 0) =>
        \A i \in 1..Len(filteredPosts) :
            /\ filteredPosts[i].tags # None
            /\ \A k \in 1..Len(selectedTags) :
                  isElement(Val(filteredPosts[i].tags), selectedTags[k])

C4_Witness ==
    /\ FilterSettled
    /\ selectedTags = <<Tag1, Tag2>>
    /\ Len(posts) = 2
    /\ Len(filteredPosts) = 1
    /\ \E i \in 1..2 : posts[i].tags = Some(<<Tag2>>)

\* C5: the query is matched case-insensitively and trimmed: once filterPosts
\* has run, any query that differs from searchQuery only in surrounding
\* whitespace or in letter case yields the same list as filteredPosts.
C5_QueryTrimmedAndCaseless ==
    FilterSettled =>
        \A q \in Queries :
            criteriaQuery(q) = criteriaQuery(searchQuery)
                => filterPosts(posts, q, selectedTags) = filteredPosts

toastCount == Cardinality({i \in 1..Len(effects) : effects[i].kind = "toast"})

\* C6: when a remote query of fetchPosts has failed, posts is still empty and
\* exactly one notification has been shown to the user.
C6_FetchFailureNotified ==
    fetchPc = "failed" => (posts = <<>> /\ toastCount = 1)

\* C7: a submit without an authenticated user starts no insert, leaves the
\* loading flag false, the location and the form fields as they were, and
\* shows exactly one 'Authentication required' notification.
C7_SubmitWithoutUser ==
    [][(submits' # submits /\ user = None) =>
          /\ pendingInserts' = pendingInserts
          /\ ~cpLoading /\ ~cpLoading'
          /\ location' = location
          /\ form' = form
          /\ Len(effects') = Len(effects) + 1
          /\ SubSeq(effects', 1, Len(effects)) = effects
          /\ effects'[Len(effects')].kind = "toast"
          /\ effects'[Len(effects')].title = "Authentication required"]_vars

C7_Witness ==
    /\ user = None
    /\ submits = 2
    /\ Len(effects) = 2
    /\ location = "/create"

\* C8: at most one insert of CreatePost and at most one query of the Blog
\* page are in flight at any time.
C8_OneRequestInFlight ==
    Len(pendingInserts) <= 1 /\ fetchInFlight <= 1

C8_Witness ==
    /\ Len(pendingInserts) = 1
    /\ cpLoading
    /\ submits = 2
    /\ location = "/create"

\* C9: a submit with an authenticated user starts exactly one insert, and
\* inserts start in no other way; the answer to an insert brings either a
\* success notification followed by the navigation to the dashboard, or one
\* error notification with the remote message and no navigation; either way
\* the loading flag is false afterwards and the form fields are as before.
C9_SubmitOutcome ==
    [][/\ (submits' # submits /\ user # None) =>
             /\ Len(pendingInserts') = Len(pendingInserts) + 1
             /\ effects' = effects
       /\ Len(pendingInserts') > Len(pendingInserts) => submits' = submits + 1
       /\ Len(pendingInserts') < Len(pendingInserts) =>
             /\ Len(pendingInserts') = Len(pendingInserts) - 1
             /\ ~cpLoading'
             /\ form' = form
             /\ SubSeq(effects', 1, Len(effects)) = effects
             /\ \/ /\ Len(effects') = Len(effects) + 2
                   /\ effects'[Len(effects) + 1].kind = "toast"
                   /\ effects'[Len(effects) + 1].title = "Post created successfully"
                   /\ effects'[Len(effects) + 2].kind = "navigate"
                   /\ effects'[Len(effects) + 2].title = "/dashboard"
                   /\ location' = "/dashboard"
                \/ /\ Len(effects') = Len(effects) + 1
                   /\ effects'[Len(effects) + 1].kind = "toast"
                   /\ effects'[Len(effects) + 1].title = "Error creating post"
                   /\ effects'[Len(effects) + 1].description \in ErrorMessages
                   /\ location' = location]_vars

C9_Witness ==
    /\ user # None
    /\ submits = 2
    /\ pendingInserts = <<>>
    /\ ~cpLoading
    /\ Len(effects) = 3
    /\ effects[1].title = "Error creating post"
    /\ effects[2].title = "Post created successfully"
    /\ effects[3].kind = "navigate"
    /\ location = "/dashboard"

\* C10: selectedTags never holds a tag more than once.
C10_SelectedTagsUnique ==
    \A i, j \in 1..Len(selectedTags) : selectedTags[i] = selectedTags[j] => i = j

\* C11: whenever no run of the filter effect is pending, filteredPosts is the
\* filter of the current posts, searchQuery and selectedTags; and a pending
\* run of the effect always takes place, so the list does not stay stale.
C11_FilterFollowsCriteria ==
    /\ [](~filterPending =>
            filteredPosts = filterPosts(posts, searchQuery, selectedTags))
    /\ []<>(~filterPending)

C11_Witness ==
    /\ FilterSettled
    /\ fetchPc = "done"
    /\ Len(posts) = 2
    /\ Len(filteredPosts) = 1
    /\ searchQuery = <<"a">>
    /\ selectedTags = <<Tag2>>
    /\ filteredPosts # filterPosts(posts, <<>>, selectedTags)

====
